---- MODULE Spec2Model ----
(***************************************************************************)
(* Model of modules/cloud_function/main.py: the HTTP-triggered handler     *)
(* hello_world and its formatter _generate_hello_message.                  *)
(*                                                                         *)
(* Python strings are TLA+ strings (\o is +, Len is len, SubSeq is a       *)
(* slice).  os.environ is a function whose domain holds "ENV" exactly when *)
(* the variable is set.  A request is a record with the one attribute the  *)
(* handler reads, method.  A response is the triple <<body, status,        *)
(* headers>>, the header mapping being a function from names to values.    *)
(*                                                                         *)
(* The state is the process environment and the trace of the calls made so *)
(* far; each call is recorded with its argument and the value it returned, *)
(* a handler call also with the environment it ran in.                     *)
(***************************************************************************)
EXTENDS Integers, Sequences, FiniteSets, TLC

VARIABLES os_environ, trace

vars == <<os_environ, trace>>

\* Number of calls recorded in a behaviour.
MaxCalls == 3

\* Values the deployment gives to ENV: the empty string, a stage name, and
\* the text of the default itself.
EnvStrings == {"", "production", "unknown"}

\* Method strings of the requests: the three advertised ones and two near
\* misses of the preflight method.
Methods == {"GET", "POST", "OPTIONS", "options", "OPTIONS "}

\* The states of the process environment: ENV unset, or set to a string.
EnvStates == {<<>>} \cup {[k \in {"ENV"} |-> v] : v \in EnvStrings}

Requests == [method : Methods]

\* ---------------------------------------------------------------- helpers

\* d.get(key) or default: an empty stored value is taken for a missing one.
dict_get_or(d, key, default) ==
    IF key \in DOMAIN d /\ d[key] # "" THEN d[key] ELSE default

\* Mapping.get(key, default): the stored value when the key is present
\* (whatever it is, the empty string included), the default otherwise.
dict_get(d, key, default) == IF key \in DOMAIN d THEN d[key] ELSE default

\* str.upper() on the method strings of the model.
upper(s) == IF s = "options" THEN "OPTIONS" ELSE s

\* ------------------------------------------------------------- the program

\* The formatter with the blank after the colon left out.
_generate_hello_message_nospace(environment) ==
    "Hello, World! Environment:" \o environment

\* The formatter ending the sentence with a full stop.
_generate_hello_message_period(environment) ==
    "Hello, World! Environment: " \o environment \o "."

\* The formatter reading the process environment instead of its parameter
\* whenever ENV is set.
_generate_hello_message_global(environment) ==
    "Hello, World! Environment: " \o dict_get(os_environ, "ENV", environment)

\* f"Hello, World! Environment: {environment}": the literal part followed by
\* format(environment, ""), which for a str is the str itself.
_generate_hello_message(environment) ==
    "Hello, World! Environment: " \o environment

\* The header mapping built by every call.
headers ==
    ("Access-Control-Allow-Origin" :> "*")
    @@ ("Access-Control-Allow-Methods" :> "GET, POST, OPTIONS")
    @@ ("Access-Control-Allow-Headers" :> "Content-Type")

\* The environment the latest handler call of the trace ran in, if any.
previous_environ ==
    LET handled == {i \in 1..Len(trace) : trace[i].fn = "hello_world"}
    IN  IF handled = {} THEN os_environ
        ELSE trace[CHOOSE i \in handled : \A j \in handled : i >= j].environ

\* The handler answering a preflight request with status 200.
hello_world_preflight_status(request) ==
    LET environment == dict_get(os_environ, "ENV", "unknown")
        message == _generate_hello_message(environment)
    IN  IF request.method = "OPTIONS"
        THEN <<"", 200, headers>>
        ELSE <<message, 200, headers>>

\* The handler answering a preflight request without the header mapping.
hello_world_preflight_headers(request) ==
    LET environment == dict_get(os_environ, "ENV", "unknown")
        message == _generate_hello_message(environment)
    IN  IF request.method = "OPTIONS"
        THEN <<"", 204, <<>> >>
        ELSE <<message, 200, headers>>

\* The handler answering a preflight request with the greeting as body.
hello_world_preflight_message(request) ==
    LET environment == dict_get(os_environ, "ENV", "unknown")
        message == _generate_hello_message(environment)
    IN  IF request.method = "OPTIONS"
        THEN <<message, 204, headers>>
        ELSE <<message, 200, headers>>

\* The handler refusing the methods it does not advertise.
hello_world_method_not_allowed(request) ==
    LET environment == dict_get(os_environ, "ENV", "unknown")
        message == _generate_hello_message(environment)
    IN  IF request.method = "OPTIONS"
        THEN <<"", 204, headers>>
        ELSE IF request.method \in {"GET", "POST"}
             THEN <<message, 200, headers>>
             ELSE <<"Method Not Allowed", 405, headers>>

\* The handler using the environment identifier read by the call before it.
hello_world_stale(request) ==
    LET environment == dict_get(previous_environ, "ENV", "unknown")
        message == _generate_hello_message(environment)
    IN  IF request.method = "OPTIONS"
        THEN <<"", 204, headers>>
        ELSE <<message, 200, headers>>

\* The handler comparing the method without regard to case.
hello_world_upper(request) ==
    LET environment == dict_get(os_environ, "ENV", "unknown")
        message == _generate_hello_message(environment)
    IN  IF upper(request.method) = "OPTIONS"
        THEN <<"", 204, headers>>
        ELSE <<message, 200, headers>>

\* hello_world(request), evaluated in the current process environment.
hello_world(request) ==
    LET environment == dict_get(os_environ, "ENV", "unknown")
        message == _generate_hello_message(environment)
    IN  IF request.method = "OPTIONS"
        THEN <<"", 204, headers>>
        ELSE <<message, 200, headers>>

\* ----------------------------------------------------------------- actions

Init ==
    /\ os_environ \in EnvStates
    /\ trace = <<>>

\* The deployment sets ENV between two invocations.
SetEnv ==
    /\ \E v \in EnvStrings : os_environ' = [k \in {"ENV"} |-> v]
    /\ os_environ' # os_environ
    /\ UNCHANGED trace

\* The deployment removes ENV between two invocations.
UnsetEnv ==
    /\ "ENV" \in DOMAIN os_environ
    /\ os_environ' = <<>>
    /\ UNCHANGED trace

\* The host invokes the handler with a request; the handler reads
\* os.environ and request.method and writes neither.
HelloWorld ==
    /\ Len(trace) < MaxCalls
    /\ \E request \in Requests :
          trace' = Append(trace, [fn |-> "hello_world",
                                  arg |-> request,
                                  environ |-> os_environ,
                                  ret |-> hello_world(request)])
    /\ os_environ' = os_environ

\* A direct call of the formatter (a unit test, another module).
GenerateHelloMessage ==
    /\ Len(trace) < MaxCalls
    /\ \E environment \in EnvStrings :
          trace' = Append(trace, [fn |-> "_generate_hello_message",
                                  arg |-> environment,
                                  ret |-> _generate_hello_message(environment)])
    /\ os_environ' = os_environ

Next == SetEnv \/ UnsetEnv \/ HelloWorld \/ GenerateHelloMessage

Spec == Init /\ [][Next]_vars

\* ------------------------------------------------------------------ claims

\* The positions of the trace holding handler calls and formatter calls.
HandlerCalls == {i \in 1..Len(trace) : trace[i].fn = "hello_world"}
FormatterCalls == {i \in 1..Len(trace) : trace[i].fn = "_generate_hello_message"}

\* The three CORS entries a response has to carry.
CorsNames ==
    {"Access-Control-Allow-Origin", "Access-Control-Allow-Methods",
     "Access-Control-Allow-Headers"}
CorsHeaders ==
    [n \in CorsNames |->
        CASE n = "Access-Control-Allow-Origin" -> "*"
          [] n = "Access-Control-Allow-Methods" -> "GET, POST, OPTIONS"
          [] n = "Access-Control-Allow-Headers" -> "Content-Type"]

Greeting == "Hello, World! Environment: "

\* The environment identifier in effect in a process environment.
EnvInEffect(environ) == IF environ = <<>> THEN "unknown" ELSE environ["ENV"]

\* The part of a greeting that follows the fixed text.
AfterGreeting(body) == SubSeq(body, Len(Greeting) + 1, Len(body))

\* C1: whatever ENV is (unset or any string), a call with method 'OPTIONS'
\* returns ('', 204, headers), the headers being the CORS mapping.
C1_Preflight ==
    \A i \in HandlerCalls :
        trace[i].arg.method = "OPTIONS"
            => trace[i].ret = <<"", 204, CorsHeaders>>

\* Two preflight calls were answered, one with ENV unset and one with ENV set.
C1_Witness ==
    \E i, j \in HandlerCalls :
        /\ trace[i].arg.method = "OPTIONS" /\ trace[i].environ = <<>>
        /\ trace[j].arg.method = "OPTIONS" /\ "ENV" \in DOMAIN trace[j].environ
        /\ trace[i].ret[2] = 204 /\ trace[j].ret[2] = 204

\* C2: a call with any method other than 'OPTIONS' returns the greeting for
\* the environment identifier in effect, status 200 and the CORS headers;
\* ENV='production' with POST yields 'Hello, World! Environment: production'.
C2_Greeting ==
    \A i \in HandlerCalls :
        LET r == trace[i] IN
        /\ r.arg.method # "OPTIONS"
            => r.ret = <<Greeting \o EnvInEffect(r.environ), 200, CorsHeaders>>
        /\ (r.arg.method = "POST" /\ r.environ = [k \in {"ENV"} |-> "production"])
            => r.ret = <<"Hello, World! Environment: production", 200, CorsHeaders>>

\* A POST was answered under ENV='production' and another method under
\* another environment.
C2_Witness ==
    \E i, j \in HandlerCalls :
        /\ trace[i].arg.method = "POST"
        /\ trace[i].environ = [k \in {"ENV"} |-> "production"]
        /\ trace[i].ret[1] = "Hello, World! Environment: production"
        /\ trace[j].arg.method \notin {"OPTIONS", "POST"}
        /\ trace[j].environ # trace[i].environ
        /\ trace[j].ret[2] = 200

\* C3: every response carries exactly the three CORS entries with their
\* fixed values, the same on the 204 and on the 200 path.
C3_Headers ==
    \A i \in HandlerCalls :
        LET h == trace[i].ret[3] IN
        /\ DOMAIN h = CorsNames
        /\ h["Access-Control-Allow-Origin"] = "*"
        /\ h["Access-Control-Allow-Methods"] = "GET, POST, OPTIONS"
        /\ h["Access-Control-Allow-Headers"] = "Content-Type"
        /\ \A j \in HandlerCalls : trace[j].ret[3] = h

\* A 204 and a 200 response were returned under different environments.
C3_Witness ==
    \E i, j \in HandlerCalls :
        /\ trace[i].ret[2] = 204
        /\ trace[j].ret[2] = 200
        /\ trace[i].environ # trace[j].environ

\* C4: the environment identifier is the value of ENV when it is set, taken
\* verbatim (the empty string included), and 'unknown' when ENV is absent;
\* ENV unset with GET yields 'Hello, World! Environment: unknown'.
C4_Environment ==
    \A i \in HandlerCalls :
        LET r == trace[i] IN
        /\ r.arg.method # "OPTIONS"
            => /\ Len(r.ret[1]) >= Len(Greeting)
               /\ AfterGreeting(r.ret[1]) = IF "ENV" \in DOMAIN r.environ
                                   THEN r.environ["ENV"]
                                   ELSE "unknown"
        /\ (r.arg.method = "GET" /\ r.environ = <<>>)
            => r.ret = <<"Hello, World! Environment: unknown", 200, CorsHeaders>>

\* A GET was answered with ENV unset and another call with ENV set to the
\* empty string.
C4_Witness ==
    \E i, j \in HandlerCalls :
        /\ trace[i].arg.method = "GET" /\ trace[i].environ = <<>>
        /\ trace[i].ret[1] = "Hello, World! Environment: unknown"
        /\ trace[j].arg.method # "OPTIONS"
        /\ trace[j].environ = [k \in {"ENV"} |-> ""]
        /\ trace[j].ret[1] = "Hello, World! Environment: "

\* C5: for every environment string e, the empty one included, the formatter
\* returns "Hello, World! Environment: " followed by e, unaltered, and
\* nothing after it.
C5_Format ==
    \A i \in FormatterCalls :
        LET e == trace[i].arg
            out == trace[i].ret
        IN  /\ out = "Hello, World! Environment: " \o e
            /\ Len(out) = Len(Greeting) + Len(e)
            /\ SubSeq(out, 1, Len(Greeting)) = Greeting
            /\ AfterGreeting(out) = e

\* The formatter was called with the empty string and with a longer one.
C5_Witness ==
    \E i, j \in FormatterCalls :
        /\ trace[i].arg = "" /\ trace[i].ret = Greeting
        /\ trace[j].arg = "production" /\ Len(trace[j].ret) > Len(Greeting)

\* The formatter calls of the trace agree on equal inputs.
FormatterDeterministic ==
    \A i, j \in FormatterCalls :
        trace[i].arg = trace[j].arg => trace[i].ret = trace[j].ret

\* A step that records a formatter call changes nothing else: the process
\* environment and the calls recorded before stay as they were.
FormatterFrame ==
    (/\ Len(trace') = Len(trace) + 1
     /\ trace'[Len(trace')].fn = "_generate_hello_message")
        => /\ os_environ' = os_environ
           /\ SubSeq(trace', 1, Len(trace)) = trace

\* C6: the formatter is deterministic and side-effect-free: two calls with
\* the same input, wherever they stand in a sequence of calls, return the
\* same output, and no call changes the process environment or anything a
\* later call reads.
C6_Pure == [](FormatterDeterministic) /\ [][FormatterFrame]_vars

\* The formatter was called twice with the same input, a handler call
\* between the two, and ENV now differs from what the handler saw.
C6_Witness ==
    /\ Len(trace) = 3
    /\ trace[1].fn = "_generate_hello_message"
    /\ trace[2].fn = "hello_world"
    /\ trace[3].fn = "_generate_hello_message"
    /\ trace[1].arg = trace[3].arg
    /\ trace[1].ret = trace[3].ret
    /\ trace[2].environ # os_environ

\* The responses a handler call may return.
Responses == STRING \X {200, 204} \X [CorsNames -> STRING]

\* C7: the handler never fails: for every method string and every state of
\* ENV, set or absent, it returns a triple whose status is 200 or 204, and
\* with ENV absent it answers with the default 'unknown'.
C7_NoError ==
    /\ \A request \in Requests :
          /\ hello_world(request) \in Responses
          /\ (os_environ = <<>> /\ request.method # "OPTIONS")
              => AfterGreeting(hello_world(request)[1]) = "unknown"
    /\ \A i \in HandlerCalls :
          /\ Len(trace[i].ret) = 3
          /\ trace[i].ret[2] \in {200, 204}

\* With ENV absent, a request with an unadvertised method was answered.
C7_Witness ==
    \E i \in HandlerCalls :
        /\ trace[i].environ = <<>>
        /\ trace[i].arg.method \notin {"GET", "POST", "OPTIONS"}
        /\ trace[i].ret[2] = 200
        /\ os_environ = <<>>

\* Handler calls with the same method under the same ENV returned the same
\* response, whatever was called before them.
HandlerIndependent ==
    \A i, j \in HandlerCalls :
        (trace[i].arg = trace[j].arg /\ trace[i].environ = trace[j].environ)
            => trace[i].ret = trace[j].ret

\* A step that records a handler call leaves the process environment and
\* the calls recorded before as they were, and records the request as given.
HandlerFrame ==
    (/\ Len(trace') = Len(trace) + 1
     /\ trace'[Len(trace')].fn = "hello_world")
        => /\ os_environ' = os_environ
           /\ trace'[Len(trace')].environ = os_environ
           /\ trace'[Len(trace')].arg \in Requests
           /\ SubSeq(trace', 1, Len(trace)) = trace

\* C8: invocations are independent: the handler leaves the request and ENV
\* unchanged, and the response of each call depends only on that call's
\* method and the ENV value at that call, not on the calls before it.
C8_Independent == [](HandlerIndependent) /\ [][HandlerFrame]_vars

\* The same request was handled first and last under the same ENV, with a
\* call under another ENV between the two.
C8_Witness ==
    /\ Len(trace) = 3
    /\ \A i \in 1..3 : trace[i].fn = "hello_world"
    /\ trace[1].arg = trace[3].arg
    /\ trace[1].environ = trace[3].environ
    /\ trace[2].environ # trace[1].environ
    /\ trace[1].ret[2] = 200

\* The handler that computes the greeting only when it is returned.
hello_world_skip(request, environ) ==
    IF request.method = "OPTIONS"
    THEN <<"", 204, headers>>
    ELSE <<_generate_hello_message(dict_get(environ, "ENV", "unknown")),
           200, headers>>

\* C9: a handler that skips the greeting on 'OPTIONS' returns, for every
\* method and every state of ENV, the triple hello_world returns.
C9_SkipEquivalent ==
    /\ \A request \in Requests :
          hello_world(request) = hello_world_skip(request, os_environ)
    /\ \A i \in HandlerCalls :
          trace[i].ret = hello_world_skip(trace[i].arg, trace[i].environ)

\* A preflight request and an ordinary one were handled under the same ENV.
C9_Witness ==
    \E i, j \in HandlerCalls :
        /\ trace[i].arg.method = "OPTIONS"
        /\ trace[j].arg.method = "GET"
        /\ trace[i].environ = trace[j].environ
        /\ trace[i].ret[1] = ""
        /\ trace[j].ret[1] # ""

\* C10: in every response, status 204, an empty body and method 'OPTIONS'
\* go together, the method being compared exactly and with regard to case;
\* a 200 body is never empty, even with ENV the empty string.
C10_Branch ==
    \A i \in HandlerCalls :
        LET r == trace[i] IN
        /\ r.ret[2] \in {200, 204}
        /\ (r.ret[2] = 204) <=> (r.ret[1] = "")
        /\ (r.ret[1] = "") <=> (r.arg.method = "OPTIONS")
        /\ r.arg.method \in {"options", "OPTIONS "}
            => r.ret[2] = 200 /\ AfterGreeting(r.ret[1]) = EnvInEffect(r.environ)

\* 'options' and 'OPTIONS ' were answered with 200 and 'OPTIONS' with 204,
\* one of the 200 answers with ENV the empty string.
C10_Witness ==
    \E i, j, k \in HandlerCalls :
        /\ trace[i].arg.method = "options" /\ trace[i].ret[2] = 200
        /\ trace[i].environ = [n \in {"ENV"} |-> ""] /\ trace[i].ret[1] # ""
        /\ trace[j].arg.method = "OPTIONS " /\ trace[j].ret[2] = 200
        /\ trace[k].arg.method = "OPTIONS" /\ trace[k].ret[2] = 204

====
